---- MODULE Spec2Model ----
(***************************************************************************)
(* Model of the Markdown table editor of src/script.js (class              *)
(* MarkdownTableEditor).  Text is a sequence of atoms, so that parsing and *)
(* serialising are computed atom by atom as the JavaScript computes them   *)
(* character by character.  An atom is one character, or a word: a run of  *)
(* letters and digits, which no operation of the program looks into or     *)
(* splits ("Header" stands for its six letters).  Pipes, dashes, colons    *)
(* and white space are always atoms of their own.  The DOM table is a      *)
(* record of its sections, its header cells and its body rows; every DOM   *)
(* event handler is one action.                                            *)
(***************************************************************************)
EXTENDS Integers, Sequences, FiniteSets, TLC

(***************************************************************************)
(* Bounds of the model.                                                    *)
(***************************************************************************)
\* number of events (handler runs) a behaviour of the editor is explored for
MaxSteps == 5
\* largest number of lines of a text handed to the parser on its own
MaxLines == 3

\* JavaScript null (selectedRow, selectedColumn, draggedSrcColIndex)
Null == -1

(***************************************************************************)
(* Strings: String.prototype.trim, split, includes, Array.prototype.join.  *)
(***************************************************************************)
\* the characters String.prototype.trim and the regex class \s remove
WhiteSpace == {" ", "\n", "\t"}

\* String.prototype.trim: the text from its first to its last character
\* that is no white space
Trim(s) ==
    LET kept == {i \in 1..Len(s) : s[i] \notin WhiteSpace}
    IN  IF kept = {} THEN <<>>
        ELSE SubSeq(s, CHOOSE i \in kept : \A j \in kept : i <= j,
                       CHOOSE i \in kept : \A j \in kept : j <= i)

\* String.prototype.includes for a one-character needle
Includes(s, c) == \E i \in 1..Len(s) : s[i] = c

\* String.prototype.split for a one-character separator: the pieces between
\* the separators, always one piece more than there are separators
Split(s, c) ==
    LET at     == {i \in 1..Len(s) : s[i] = c}
        \* position of the n-th separator; 0 before the text, Len + 1 after it
        pos(n) == IF n = 0 THEN 0
                  ELSE IF n > Cardinality(at) THEN Len(s) + 1
                  ELSE CHOOSE i \in at : Cardinality({j \in at : j < i}) = n - 1
    IN  [n \in 1..(Cardinality(at) + 1) |-> SubSeq(s, pos(n - 1) + 1, pos(n) - 1)]

\* Array.prototype.join
RECURSIVE Join(_, _)
Join(parts, sep) ==
    IF parts = <<>> THEN <<>>
    ELSE IF Len(parts) = 1 THEN parts[1]
    ELSE parts[1] \o sep \o Join(Tail(parts), sep)

\* Array.prototype.map(cell => cell.trim())
MapTrim(cells) == [k \in 1..Len(cells) |-> Trim(cells[k])]

\* decimal digits of a template literal ${n}
RECURSIVE NumStr(_)
NumStr(n) ==
    LET digit == <<"0", "1", "2", "3", "4", "5", "6", "7", "8", "9">>[(n % 10) + 1]
    IN  IF n < 10 THEN <<digit>> ELSE Append(NumStr(n \div 10), digit)

(***************************************************************************)
(* markdownToTable (script.js 67-92).                                      *)
(***************************************************************************)
\* faulty variant of SeparatorMatch: the character class lacks the colon
SeparatorMatch_noColon(line) ==
    LET t == Trim(line)
    IN  /\ Len(t) >= 3
        /\ t[1] = "|"
        /\ t[Len(t)] = "|"
        /\ \A k \in 2..(Len(t) - 1) : t[k] \in WhiteSpace \cup {"-", "|"}

\* line.match(/^\s*\|[\s\-\|:]+\|\s*$/)
SeparatorMatch(line) ==
    LET t == Trim(line)
    IN  /\ Len(t) >= 3
        /\ t[1] = "|"
        /\ t[Len(t)] = "|"
        /\ \A k \in 2..(Len(t) - 1) : t[k] \in WhiteSpace \cup {"-", "|", ":"}

\* faulty variant of LineCells: the empty last cell is not popped
LineCells_noPop(line) ==
    LET cells == MapTrim(Split(line, "|"))
    IN  IF cells[1] = <<>> THEN Tail(cells) ELSE cells

\* line.split('|').map(trim), then shift / pop of an empty first / last cell
LineCells(line) ==
    LET cells   == MapTrim(Split(line, "|"))
        shifted == IF cells[1] = <<>> THEN Tail(cells) ELSE cells
    IN  IF shifted # <<>> /\ shifted[Len(shifted)] = <<>>
        THEN SubSeq(shifted, 1, Len(shifted) - 1)
        ELSE shifted

\* the for loop over lines; i is the JavaScript (0-based) index
RECURSIVE ParseLoop(_, _, _)
ParseLoop(lines, i, rows) ==
    IF i >= Len(lines) THEN rows
    ELSE LET line == Trim(lines[i + 1])
         IN  IF line = <<>> \/ ~Includes(line, "|")
             THEN ParseLoop(lines, i + 1, rows)
             ELSE IF i = 1 /\ SeparatorMatch(line)
             THEN ParseLoop(lines, i + 1, rows)
             ELSE ParseLoop(lines, i + 1, Append(rows, LineCells(line)))

\* the value null of markdownToTable, and a returned array of rows
NullTable == [isNull |-> TRUE, rows |-> <<>>]
SomeTable(rows) == [isNull |-> FALSE, rows |-> rows]

markdownToTable(markdown) ==
    LET lines == Split(Trim(markdown), "\n")
    IN  IF Len(lines) < 2 THEN NullTable
        ELSE LET rows == ParseLoop(lines, 0, <<>>)
             IN  IF Len(rows) > 0 THEN SomeTable(rows) ELSE NullTable

(***************************************************************************)
(* The DOM table #editableTable.  thead / tbody say whether the section    *)
(* elements exist, headerRow whether thead holds a tr; ths are the header  *)
(* cells and trs the body rows, each a sequence of cells.  A cell carries  *)
(* its text and the two attributes the handlers read and write.            *)
(***************************************************************************)
\* document.createElement('th' / 'td') with contentEditable = true
NewCell(text) == [textContent |-> text, contenteditable |-> TRUE, draggable |-> FALSE]

\* a table element without children (innerHTML = '')
NoSections == [thead |-> FALSE, tbody |-> FALSE, headerRow |-> FALSE,
               ths |-> <<>>, trs |-> <<>>]

\* clearTable: innerHTML = '<thead></thead><tbody></tbody>'
clearTable == [thead |-> TRUE, tbody |-> TRUE, headerRow |-> FALSE,
               ths |-> <<>>, trs |-> <<>>]

\* applyModeSettings: contenteditable of every td and th follows the mode
applyModeSettings(t, drag) ==
    [t EXCEPT
        !.ths = [k \in 1..Len(t.ths) |-> [t.ths[k] EXCEPT !.contenteditable = ~drag]],
        !.trs = [r \in 1..Len(t.trs) |->
                    [k \in 1..Len(t.trs[r]) |->
                        [t.trs[r][k] EXCEPT !.contenteditable = ~drag]]]]

\* renderTable(rows) for a non-empty array of rows: new cells, then
\* applyModeSettings (attachDragListeners gives every th its handlers and
\* sets no attribute)
renderTable(rows, drag) ==
    applyModeSettings(
        [thead |-> TRUE, tbody |-> TRUE, headerRow |-> TRUE,
         ths |-> [k \in 1..Len(rows[1]) |-> NewCell(rows[1][k])],
         trs |-> [r \in 1..(Len(rows) - 1) |->
                    [k \in 1..Len(rows[r + 1]) |-> NewCell(rows[r + 1][k])]]],
        drag)

\* cells.map(cell => cell.textContent || '')
CellTexts(cells) == [k \in 1..Len(cells) |-> cells[k].textContent]

\* faulty variant of RowLine: the line break is missing
RowLine_noBreak(texts) == <<"|", " ">> \o Join(texts, <<" ", "|", " ">>) \o <<" ", "|">>

\* '| ' + cellTexts.join(' | ') + ' |\n'
RowLine(texts) == <<"|", " ">> \o Join(texts, <<" ", "|", " ">>) \o <<" ", "|", "\n">>

\* the forEach over the body rows, rows without cells skipped
RECURSIVE BodyLines(_)
BodyLines(trs) ==
    IF trs = <<>> THEN <<>>
    ELSE (IF Len(Head(trs)) = 0 THEN <<>> ELSE RowLine(CellTexts(Head(trs))))
         \o BodyLines(Tail(trs))

\* tableToMarkdown (script.js 142-178)
tableToMarkdown(t) ==
    IF ~t.thead /\ ~t.tbody THEN <<>>
    ELSE (IF t.thead /\ t.headerRow /\ Len(t.ths) > 0
          THEN RowLine(CellTexts(t.ths))
               \o RowLine([k \in 1..Len(t.ths) |-> <<"-", "-", "-">>])
          ELSE <<>>)
         \o (IF t.tbody THEN BodyLines(t.trs) ELSE <<>>)

(***************************************************************************)
(* Literal texts.                                                          *)
(***************************************************************************)
Cat(parts) == Join(parts, <<>>)

HeaderWord == <<"Header">>
CellWord == <<"Cell">>

\* `Header ${n}` and the sample cells `Cell n`
HeaderText(n) == HeaderWord \o <<" ">> \o NumStr(n)
CellText(n) == CellWord \o <<" ">> \o NumStr(n)

\* a line of a literal text: '| a | b |' without a line break
PipeLine(texts) == <<"|", " ">> \o Join(texts, <<" ", "|", " ">>) \o <<" ", "|">>

\* the template literal defaultTable of createNewTable
defaultTable ==
    Join(<< PipeLine(<<HeaderText(1), HeaderText(2), HeaderText(3)>>),
            PipeLine(<< <<"-", "-", "-">>, <<"-", "-", "-">>, <<"-", "-", "-">> >>),
            PipeLine(<<CellText(1), CellText(2), CellText(3)>>),
            PipeLine(<<CellText(4), CellText(5), CellText(6)>>) >>,
         <<"\n">>)

(***************************************************************************)
(* State.                                                                  *)
(***************************************************************************)
VARIABLES
    editableTable,        \* the DOM table
    markdownInput,        \* markdownInput.value
    selectedRow,          \* Null or 1-based index of the selected body row
    selectedColumn,       \* Null or 0-based index of the selected column
    isDragMode,
    draggedSrcColIndex,   \* Null or the column index recorded by dragstart
    swapInProgress,
    lastOp,               \* history: the handler that ran last and what it did
    steps                 \* history: the number of events handled so far

vars == <<editableTable, markdownInput, selectedRow, selectedColumn, isDragMode,
          draggedSrcColIndex, swapInProgress, lastOp, steps>>

\* one more event is handled
Tick == steps < MaxSteps /\ steps' = steps + 1

\* name: the handler; changed: it changed the table; threw: it ended by an
\* uncaught exception; gesture: 1 after a dragstart that recorded its source,
\* 2 after a drop that follows it at once and entered the swap, 3 after a
\* drop that follows that one at once, 0 otherwise
Op(name, changed, threw) ==
    [name |-> name, changed |-> changed, threw |-> threw, gesture |-> 0]

NumCols == Len(editableTable.ths)
NumRows == Len(editableTable.trs)
\* the number of cells of the longest row, the header row included
MaxWidth ==
    LET widths == {NumCols} \cup {Len(editableTable.trs[r]) : r \in 1..NumRows}
    IN  CHOOSE w \in widths : \A v \in widths : v <= w

(***************************************************************************)
(* Texts typed or pasted into the textarea, and texts typed into a cell.   *)
(***************************************************************************)
ScenarioA ==
    Join(<< PipeLine(<< <<"A">>, <<"B">> >>),
            PipeLine(<< <<"-", "-", "-">>, <<"-", "-", "-">> >>),
            PipeLine(<< <<"1">>, <<"2">> >>) >>, <<"\n">>)

ScenarioD ==
    Join(<< PipeLine(<< <<"A">>, <<"B">> >>),
            PipeLine(<< <<"not", "-", "a", "-", "separator">> >>),
            PipeLine(<< <<"1">>, <<"2">> >>) >>, <<"\n">>)

ScenarioB ==
    Join(<< PipeLine(<< <<"X">> >>),
            PipeLine(<< <<"-", "-", "-">> >>),
            PipeLine(<< <<"y">> >>) >>, <<"\n">>)

TypedTexts ==
    { <<>>,                                        \* cleared textarea
      ScenarioB,
      ScenarioD,
      <<"|", "\n", "|", "\n", "|", "1", "|">> }    \* lines holding only a pipe

CellInputs == { <<"a", "|", "b">> }

(***************************************************************************)
(* Initial state: the constructor, before any event.                       *)
(***************************************************************************)
\* The page (index.html) is not among the sources: the table element starts
\* without sections or with an empty thead and tbody; no handler tells the
\* two apart before the first table is rendered, but for addColumn and
\* deleteColumn, which return in the first case and throw in the second.
Init ==
    /\ editableTable \in {NoSections, clearTable}
    /\ markdownInput = <<>>
    /\ selectedRow = Null
    /\ selectedColumn = Null
    /\ isDragMode = FALSE
    /\ draggedSrcColIndex = Null
    /\ swapInProgress = FALSE
    /\ lastOp = Op("constructor", FALSE, FALSE)
    /\ steps = 0

(***************************************************************************)
(* parseMarkdown, createNewTable.                                          *)
(***************************************************************************)
\* faulty variants of clearSelections: one of the two fields is not reset
clearSelections_keepsColumn == [selectedRow |-> Null, selectedColumn |-> selectedColumn]
clearSelections_keepsRow == [selectedRow |-> selectedRow, selectedColumn |-> Null]

\* clearSelections: the values it leaves in selectedRow and selectedColumn
clearSelections == [selectedRow |-> Null, selectedColumn |-> Null]

\* faulty variant of parseMarkdown: a text that does not parse clears the table
parseMarkdown_clearsOnNull(t, markdown, drag) ==
    IF Trim(markdown) = <<>> THEN clearTable
    ELSE LET table == markdownToTable(markdown)
         IN  IF ~table.isNull THEN renderTable(table.rows, drag) ELSE clearTable

\* the table parseMarkdown leaves for the text markdown
parseMarkdown(t, markdown, drag) ==
    IF Trim(markdown) = <<>> THEN clearTable
    ELSE LET table == markdownToTable(markdown)
         IN  IF ~table.isNull THEN renderTable(table.rows, drag) ELSE t

\* faulty variant of updateMarkdown: the textarea keeps its old value
updateMarkdown_stale(t) == markdownInput

\* updateMarkdown: the value written to the textarea
updateMarkdown(t) == tableToMarkdown(t)

\* 'input' event of the textarea with the new text
TextInput(text) ==
    /\ Tick
    /\ markdownInput' = text
    /\ editableTable' = parseMarkdown(editableTable, text, isDragMode)
    /\ lastOp' = Op("parseMarkdown", editableTable' # editableTable, FALSE)
    /\ UNCHANGED <<selectedRow, selectedColumn, isDragMode, draggedSrcColIndex,
                   swapInProgress>>

CreateNewTable ==
    /\ Tick
    /\ markdownInput' = defaultTable
    /\ editableTable' =
           applyModeSettings(parseMarkdown(editableTable, defaultTable, isDragMode),
                             isDragMode)
    /\ selectedRow' = clearSelections.selectedRow
    /\ selectedColumn' = clearSelections.selectedColumn
    /\ lastOp' = Op("createNewTable", editableTable' # editableTable, FALSE)
    /\ UNCHANGED <<isDragMode, draggedSrcColIndex, swapInProgress>>

(***************************************************************************)
(* addRow, addColumn.                                                      *)
(***************************************************************************)
\* faulty variant of AppendRow: the new row holds a single cell
AppendRow_oneCell(t, drag) ==
    applyModeSettings([t EXCEPT !.trs = Append(t.trs, <<NewCell(<<>>)>>)], drag)

\* the table after addRow appended its row (script.js 212-226)
AppendRow(t, drag) ==
    applyModeSettings(
        [t EXCEPT !.trs = Append(t.trs, [k \in 1..Len(t.ths) |-> NewCell(<<>>)])],
        drag)

AddRow ==
    LET appends == editableTable.tbody /\ editableTable.thead /\ editableTable.headerRow
    IN  /\ Tick
        /\ editableTable' = IF appends THEN AppendRow(editableTable, isDragMode)
                            ELSE editableTable
        /\ markdownInput' = IF appends THEN updateMarkdown(editableTable')
                            ELSE markdownInput
        /\ lastOp' = Op("addRow", editableTable' # editableTable, FALSE)
        /\ UNCHANGED <<selectedRow, selectedColumn, isDragMode, draggedSrcColIndex,
                       swapInProgress>>

\* the table after addColumn appended its cells (script.js 237-256)
AppendColumn(t, drag) ==
    applyModeSettings(
        [t EXCEPT !.ths = Append(t.ths, NewCell(HeaderText(Len(t.ths) + 1))),
                  !.trs = [r \in 1..Len(t.trs) |-> Append(t.trs[r], NewCell(<<>>))]],
        drag)

AddColumn ==
    LET sections == editableTable.thead /\ editableTable.tbody
        \* thead.querySelector('tr') is null: headerRow.querySelectorAll throws
        throws   == sections /\ ~editableTable.headerRow
        appends  == sections /\ editableTable.headerRow
    IN  /\ Tick
        /\ editableTable' = IF appends THEN AppendColumn(editableTable, isDragMode)
                            ELSE editableTable
        /\ markdownInput' = IF appends THEN updateMarkdown(editableTable')
                            ELSE markdownInput
        /\ lastOp' = Op("addColumn", editableTable' # editableTable, throws)
        /\ UNCHANGED <<selectedRow, selectedColumn, isDragMode, draggedSrcColIndex,
                       swapInProgress>>

(***************************************************************************)
(* deleteRow, deleteColumn.                                                *)
(***************************************************************************)
\* faulty variant of RemoveAt: the last element is removed, whatever i
RemoveAt_last(seq, i) == SubSeq(seq, 1, Len(seq) - 1)

\* element.remove() of the element at JavaScript index i of an array
RemoveAt(seq, i) == SubSeq(seq, 1, i) \o SubSeq(seq, i + 2, Len(seq))

\* array[i] is an element (not undefined)
Has(seq, i) == i >= 0 /\ i < Len(seq)

DeleteRow ==
    LET selected == selectedRow # Null /\ ~isDragMode
        rows     == editableTable.trs
        hit      == selected /\ Has(rows, selectedRow - 1)
        last     == ~selected /\ Len(rows) > 0
    IN  /\ Tick
        /\ IF ~editableTable.tbody
           THEN
             /\ lastOp' = Op("deleteRow", FALSE, FALSE)
             /\ UNCHANGED <<editableTable, markdownInput, selectedRow, selectedColumn,
                            isDragMode, draggedSrcColIndex, swapInProgress>>
           ELSE
             /\ editableTable' =
                    IF hit THEN [editableTable EXCEPT !.trs = RemoveAt(rows, selectedRow - 1)]
                    ELSE IF last
                    THEN [editableTable EXCEPT !.trs = RemoveAt(rows, Len(rows) - 1)]
                    ELSE editableTable
             /\ markdownInput' = IF hit \/ last THEN updateMarkdown(editableTable')
                                 ELSE markdownInput
             /\ selectedRow' = IF hit THEN clearSelections.selectedRow ELSE selectedRow
             /\ selectedColumn' = IF hit THEN clearSelections.selectedColumn
                                  ELSE selectedColumn
             /\ lastOp' = Op("deleteRow", editableTable' # editableTable, FALSE)
             /\ UNCHANGED <<isDragMode, draggedSrcColIndex, swapInProgress>>

\* faulty variant of RemoveColumnAt: the body rows keep their cell
RemoveColumnAt_headerOnly(t, c) ==
    [t EXCEPT !.ths = SubSeq(t.ths, 1, c) \o SubSeq(t.ths, c + 2, Len(t.ths))]

\* the selected branch of deleteColumn once the header cell exists
\* (script.js 297-304)
RemoveColumnAt(t, c) ==
    [t EXCEPT !.ths = RemoveAt(t.ths, c),
              !.trs = [r \in 1..Len(t.trs) |->
                          IF Has(t.trs[r], c) THEN RemoveAt(t.trs[r], c)
                          ELSE t.trs[r]]]

\* faulty variant of RemoveLastColumn: the body rows keep their last cell
RemoveLastColumn_headerOnly(t) ==
    [t EXCEPT !.ths = RemoveAt(t.ths, Len(t.ths) - 1)]

\* the fallback branch of deleteColumn (script.js 314-321)
RemoveLastColumn(t) ==
    [t EXCEPT !.ths = RemoveAt(t.ths, Len(t.ths) - 1),
              !.trs = [r \in 1..Len(t.trs) |->
                          IF Len(t.trs[r]) > 0
                          THEN RemoveAt(t.trs[r], Len(t.trs[r]) - 1)
                          ELSE t.trs[r]]]

\* faulty variant of KeepsLastColumn: only an empty header row is refused
KeepsLastColumn_none(headerCells) == Len(headerCells) <= 0

\* headerCells.length <= 1: keep at least one column
KeepsLastColumn(headerCells) == Len(headerCells) <= 1

DeleteColumn ==
    LET sections == editableTable.thead /\ editableTable.tbody
        throws   == sections /\ ~editableTable.headerRow
        selected == selectedColumn # Null /\ ~isDragMode
        acts     == sections /\ editableTable.headerRow
                    /\ ~KeepsLastColumn(editableTable.ths)
        hit      == acts /\ selected /\ Has(editableTable.ths, selectedColumn)
        last     == acts /\ ~selected
    IN  /\ Tick
        /\ editableTable' =
               IF hit THEN RemoveColumnAt(editableTable, selectedColumn)
               ELSE IF last THEN RemoveLastColumn(editableTable)
               ELSE editableTable
        /\ markdownInput' = IF hit \/ last THEN updateMarkdown(editableTable')
                            ELSE markdownInput
        /\ selectedRow' = IF hit THEN clearSelections.selectedRow ELSE selectedRow
        /\ selectedColumn' = IF hit THEN clearSelections.selectedColumn
                             ELSE selectedColumn
        /\ lastOp' = Op("deleteColumn", editableTable' # editableTable, throws)
        /\ UNCHANGED <<isDragMode, draggedSrcColIndex, swapInProgress>>

(***************************************************************************)
(* Cell editing: the 'input' event of the table (script.js 34-38).         *)
(***************************************************************************)
\* typing into header cell k (row = 0) or into cell k of body row `row`
\* (JavaScript indices); only a contenteditable cell takes input
CellInput(row, k, text) ==
    /\ Tick
    /\ IF row = 0
       THEN /\ Has(editableTable.ths, k)
            /\ editableTable.ths[k + 1].contenteditable
            /\ editableTable' =
                   [editableTable EXCEPT !.ths[k + 1].textContent = text]
       ELSE /\ Has(editableTable.trs, row - 1)
            /\ Has(editableTable.trs[row], k)
            /\ editableTable.trs[row][k + 1].contenteditable
            /\ editableTable' =
                   [editableTable EXCEPT !.trs[row][k + 1].textContent = text]
    /\ markdownInput' = updateMarkdown(editableTable')
    /\ lastOp' = Op("cellInput", editableTable' # editableTable, FALSE)
    /\ UNCHANGED <<selectedRow, selectedColumn, isDragMode, draggedSrcColIndex,
                   swapInProgress>>

(***************************************************************************)
(* Selection: the click listener of initSelectionSystem, clearSelections.  *)
(***************************************************************************)
\* click on a td of body row `row` (1-based, the header being row 0)
ClickCell(row) ==
    /\ Tick
    /\ Has(editableTable.trs, row - 1)
    /\ Len(editableTable.trs[row]) > 0
    /\ selectedRow' = IF isDragMode THEN selectedRow ELSE row
    /\ selectedColumn' = IF isDragMode THEN selectedColumn
                         ELSE clearSelections.selectedColumn
    /\ lastOp' = Op("clickCell", FALSE, FALSE)
    /\ UNCHANGED <<editableTable, markdownInput, isDragMode, draggedSrcColIndex,
                   swapInProgress>>

\* faulty variant of ClickHeader: the click selects the column in drag mode too
ClickHeader_anyMode(k) ==
    /\ Tick
    /\ Has(editableTable.ths, k)
    /\ selectedRow' = clearSelections.selectedRow
    /\ selectedColumn' = k
    /\ lastOp' = Op("clickHeader", FALSE, FALSE)
    /\ UNCHANGED <<editableTable, markdownInput, isDragMode, draggedSrcColIndex,
                   swapInProgress>>

\* click on the th at index k
ClickHeader(k) ==
    /\ Tick
    /\ Has(editableTable.ths, k)
    /\ selectedRow' = IF isDragMode THEN selectedRow ELSE clearSelections.selectedRow
    /\ selectedColumn' = IF isDragMode THEN selectedColumn ELSE k
    /\ lastOp' = Op("clickHeader", FALSE, FALSE)
    /\ UNCHANGED <<editableTable, markdownInput, isDragMode, draggedSrcColIndex,
                   swapInProgress>>

\* click inside the table but on no cell
ClickElsewhere ==
    /\ Tick
    /\ selectedRow' = IF isDragMode THEN selectedRow ELSE clearSelections.selectedRow
    /\ selectedColumn' = IF isDragMode THEN selectedColumn
                         ELSE clearSelections.selectedColumn
    /\ lastOp' = Op("clickElsewhere", FALSE, FALSE)
    /\ UNCHANGED <<editableTable, markdownInput, isDragMode, draggedSrcColIndex,
                   swapInProgress>>

(***************************************************************************)
(* toggleMode.                                                             *)
(***************************************************************************)
\* the attributes toggleMode sets once isDragMode holds its new value
ToggleAttributes(t, drag) ==
    IF drag
    THEN [t EXCEPT
            !.ths = [k \in 1..Len(t.ths) |->
                        [t.ths[k] EXCEPT !.draggable = TRUE, !.contenteditable = FALSE]],
            !.trs = [r \in 1..Len(t.trs) |->
                        [k \in 1..Len(t.trs[r]) |->
                            [t.trs[r][k] EXCEPT !.contenteditable = FALSE]]]]
    ELSE [t EXCEPT
            !.ths = [k \in 1..Len(t.ths) |-> [t.ths[k] EXCEPT !.draggable = FALSE]],
            !.trs = [r \in 1..Len(t.trs) |->
                        [k \in 1..Len(t.trs[r]) |->
                            [t.trs[r][k] EXCEPT !.contenteditable = TRUE]]]]

ToggleMode ==
    /\ Tick
    /\ isDragMode' = ~isDragMode
    /\ selectedRow' = clearSelections.selectedRow
    /\ selectedColumn' = clearSelections.selectedColumn
    /\ editableTable' = ToggleAttributes(editableTable, isDragMode')
    /\ lastOp' = Op("toggleMode", FALSE, FALSE)
    /\ UNCHANGED <<markdownInput, draggedSrcColIndex, swapInProgress>>

(***************************************************************************)
(* Drag and drop of header cells.                                          *)
(***************************************************************************)
\* the guards of handleDragStart: drag mode, and the th is draggable
DragStarts(k) == isDragMode /\ editableTable.ths[k + 1].draggable

\* dragstart on the th at index k
DragStart(k) ==
    /\ Tick
    /\ Has(editableTable.ths, k)
    /\ draggedSrcColIndex' =
           IF DragStarts(k) THEN k ELSE draggedSrcColIndex
    /\ lastOp' = [Op("dragStart", FALSE, FALSE) EXCEPT
                     !.gesture = IF DragStarts(k) THEN 1 ELSE 0]
    /\ UNCHANGED <<editableTable, markdownInput, selectedRow, selectedColumn,
                   isDragMode, swapInProgress>>

\* dragend on a th
DragEnd ==
    /\ Tick
    /\ Len(editableTable.ths) > 0
    /\ draggedSrcColIndex' = Null
    /\ lastOp' = Op("dragEnd", FALSE, FALSE)
    /\ UNCHANGED <<editableTable, markdownInput, selectedRow, selectedColumn,
                   isDragMode, swapInProgress>>

\* faulty variant of SwapCells: no temporary, the source text is lost
SwapCells_overwrite(cells, s, t) ==
    IF Has(cells, s) /\ Has(cells, t)
    THEN [cells EXCEPT ![s + 1].textContent = cells[t + 1].textContent]
    ELSE cells

\* the body of the swap loop for one row: both cells exist, or nothing
SwapCells(cells, s, t) ==
    IF Has(cells, s) /\ Has(cells, t)
    THEN [cells EXCEPT ![s + 1].textContent = cells[t + 1].textContent,
                       ![t + 1].textContent = cells[s + 1].textContent]
    ELSE cells

\* the loop over editableTable.rows (script.js 463-471)
SwapColumns(tbl, s, t) ==
    [tbl EXCEPT !.ths = SwapCells(tbl.ths, s, t),
                !.trs = [r \in 1..Len(tbl.trs) |-> SwapCells(tbl.trs[r], s, t)]]

\* the guards of handleDrop before the swap (script.js 440-456)
DropIgnored(target) ==
    \/ ~isDragMode
    \/ swapInProgress
    \/ draggedSrcColIndex = Null
    \/ target = draggedSrcColIndex

\* faulty variant of SourceAfterDrop: the finally block keeps the source
SourceAfterDrop_kept == draggedSrcColIndex

\* the source index handleDrop leaves in its finally block
SourceAfterDrop == Null

\* faulty variant of SwapFlagAfterDrop: the finally block leaves the flag set
SwapFlagAfterDrop_held == TRUE

\* swapInProgress as handleDrop leaves it in its finally block
SwapFlagAfterDrop == FALSE

\* drop on the th at index target: the guards return without touching the
\* state; past them the flag is set, the columns are exchanged, the text is
\* written and the finally block resets the source and the flag
Drop(target) ==
    /\ Tick
    /\ Has(editableTable.ths, target)
    /\ IF DropIgnored(target)
       THEN /\ lastOp' = [Op("drop", FALSE, FALSE) EXCEPT
                             !.gesture = IF lastOp.gesture = 2 THEN 3 ELSE 0]
            /\ UNCHANGED <<editableTable, markdownInput, draggedSrcColIndex,
                           swapInProgress>>
       ELSE /\ editableTable' = SwapColumns(editableTable, draggedSrcColIndex, target)
            /\ markdownInput' = updateMarkdown(editableTable')
            /\ draggedSrcColIndex' = SourceAfterDrop
            /\ swapInProgress' = SwapFlagAfterDrop
            /\ lastOp' = [Op("drop", editableTable' # editableTable, FALSE) EXCEPT
                             !.gesture = IF lastOp.gesture = 2 THEN 3
                                         ELSE IF lastOp.gesture = 1 THEN 2 ELSE 0]
    /\ UNCHANGED <<selectedRow, selectedColumn, isDragMode>>

(***************************************************************************)
(* The editor: any event at any time.                                      *)
(***************************************************************************)
Next ==
    \/ \E text \in TypedTexts : TextInput(text)
    \/ CreateNewTable
    \/ AddRow
    \/ AddColumn
    \/ DeleteRow
    \/ DeleteColumn
    \/ \E row \in 0..NumRows, k \in 0..(MaxWidth - 1), text \in CellInputs :
           CellInput(row, k, text)
    \/ \E row \in 1..NumRows : ClickCell(row)
    \/ \E k \in 0..(NumCols - 1) : ClickHeader(k)
    \/ ClickElsewhere
    \/ ToggleMode
    \/ \E k \in 0..(NumCols - 1) : DragStart(k)
    \/ DragEnd
    \/ \E k \in 0..(NumCols - 1) : Drop(k)

Spec == Init /\ [][Next]_vars

(***************************************************************************)
(* The parser on its own: one text handed to parseMarkdown, on the empty   *)
(* page or on the sample table.                                            *)
(***************************************************************************)
SampleLines ==
    { PipeLine(<< <<"A">>, <<"B">> >>),
      PipeLine(<< <<"-", "-", "-">>, <<"-", "-", "-">> >>),
      PipeLine(<< <<"1">>, <<"2">> >>),
      PipeLine(<< <<"not", "-", "a", "-", "separator">> >>),
      <<>>,
      <<"x">>,
      <<"|">>,
      <<"|", "|">>,
      <<" ", "|", "a", "|", " ", "b", " ">>,
      <<"a", "|", "b">>,
      <<"|", ":", "-", ":", "|">> }

SampleTexts ==
    { Join(lines, <<"\n">>) :
        lines \in UNION { [1..n -> SampleLines] : n \in 1..MaxLines } }

ParseNext ==
    \/ steps = 0 /\ CreateNewTable
    \/ \E text \in SampleTexts : lastOp.name # "parseMarkdown" /\ TextInput(text)

SpecParse == Init /\ [][ParseNext]_vars

(***************************************************************************)
(* Properties.                                                             *)
(***************************************************************************)
\* the texts of a table, header first
TableRows(t) ==
    <<CellTexts(t.ths)>> \o [r \in 1..Len(t.trs) |-> CellTexts(t.trs[r])]

\* every body row has as many cells as the header
Uniform(t) == \A r \in 1..Len(t.trs) : Len(t.trs[r]) = Len(t.ths)

\* the handlers that change cells, rows or columns of the grid
GridOps == {"cellInput", "addRow", "addColumn", "deleteRow", "deleteColumn", "drop"}

DefaultHeader == <<HeaderText(1), HeaderText(2), HeaderText(3)>>

\* C1: round trip.  For every table with at least one header cell whose body
\* rows are as long as the header, parsing the serialised table gives back
\* the same header and the same body rows in the same order, cell texts
\* compared after trimming.
C1_RoundTrip ==
    (editableTable.headerRow /\ NumCols >= 1 /\ Uniform(editableTable)) =>
        markdownToTable(tableToMarkdown(editableTable))
            = SomeTable([r \in 1..(NumRows + 1) |->
                            MapTrim(TableRows(editableTable)[r])])

\* C2: row-length invariant.  A step of addRow, addColumn, deleteRow,
\* deleteColumn or drop taken from a table whose body rows are all as long as
\* the header, in any mode and with any selection, leads to such a table.
C2_RowLength ==
    [][(Uniform(editableTable)
        /\ lastOp'.name \in {"addRow", "addColumn", "deleteRow", "deleteColumn", "drop"})
       => Uniform(editableTable')]_vars

C2_Witness ==
    /\ lastOp.name = "deleteColumn"
    /\ lastOp.changed
    /\ CellTexts(editableTable.ths) = <<HeaderText(1), HeaderText(2)>>
    /\ NumRows = 2
    /\ Uniform(editableTable)

\* C3: column floor.  deleteColumn on a table with exactly one column leaves
\* the table and the markdown text unchanged, in either mode and with or
\* without a selected column; so deleteColumn never takes a table that has a
\* column to one that has none.
C3_ColumnFloor ==
    [][lastOp'.name = "deleteColumn" =>
        /\ NumCols = 1 =>
              (editableTable' = editableTable /\ markdownInput' = markdownInput)
        /\ NumCols >= 1 => Len(editableTable'.ths) >= 1]_vars

C3_Witness ==
    /\ lastOp.name = "deleteColumn"
    /\ ~lastOp.changed
    /\ editableTable.headerRow
    /\ NumCols = 1
    /\ selectedColumn = 0
    /\ ~isDragMode

\* C4: selection exclusivity.  Never are a row and a column selected
\* together; after a click on a body cell in edit mode exactly a row is
\* selected, after a click on a header cell in edit mode exactly a column.
C4_SelectionExclusive ==
    /\ ~(selectedRow # Null /\ selectedColumn # Null)
    /\ (lastOp.name = "clickCell" /\ ~isDragMode) =>
           (selectedRow # Null /\ selectedColumn = Null)
    /\ (lastOp.name = "clickHeader" /\ ~isDragMode) =>
           (selectedColumn # Null /\ selectedRow = Null)

C4_Witness ==
    /\ lastOp.name = "clickCell"
    /\ ~isDragMode
    /\ selectedRow = 2

\* C5: right after toggleMode, in either direction, nothing is selected.
C5_ToggleClearsSelection ==
    lastOp.name = "toggleMode" => (selectedRow = Null /\ selectedColumn = Null)

C5_Witness ==
    /\ lastOp.name = "toggleMode"
    /\ ~isDragMode
    /\ NumCols >= 1

\* the texts of row `new` are those of row `old` with the cells at the
\* JavaScript indices s and t exchanged
ExchangedCells(old, new, s, t) ==
    /\ Len(new) = Len(old)
    /\ \A k \in 1..Len(old) :
           new[k].textContent =
               old[IF k = s + 1 THEN t + 1 ELSE IF k = t + 1 THEN s + 1 ELSE k].textContent

\* header and every body row holding both cells are exchanged, the other
\* rows are as before, no row or column is added or removed
Exchanged(old, new, s, t) ==
    /\ ExchangedCells(old.ths, new.ths, s, t)
    /\ Len(new.trs) = Len(old.trs)
    /\ \A r \in 1..Len(old.trs) :
           IF Has(old.trs[r], s) /\ Has(old.trs[r], t)
           THEN ExchangedCells(old.trs[r], new.trs[r], s, t)
           ELSE new.trs[r] = old.trs[r]

\* C6: drop reentrancy.  After a dragstart that recorded the source s, a
\* drop on t # s applies the exchange, and a second drop delivered right
\* after it changes neither the table nor the markdown text.
C6_DropReentrancy ==
    [][/\ \A t \in 0..(NumCols - 1) :
              (lastOp.gesture = 1 /\ Drop(t) /\ t # draggedSrcColIndex) =>
                  /\ lastOp'.gesture = 2
                  /\ Exchanged(editableTable, editableTable', draggedSrcColIndex, t)
       /\ lastOp'.gesture = 3 =>
              (editableTable' = editableTable /\ markdownInput' = markdownInput)]_vars

C6_Witness ==
    /\ lastOp.gesture = 3
    /\ CellTexts(editableTable.ths) = <<HeaderText(3), HeaderText(2), HeaderText(1)>>

\* C7: two-way synchronisation.  Right after a cell edit, addRow, addColumn,
\* deleteRow, deleteColumn or drop that changed the grid, the markdown text
\* is the serialisation of the grid.
C7_TwoWaySync ==
    (lastOp.name \in GridOps /\ lastOp.changed) =>
        markdownInput = tableToMarkdown(editableTable)

C7_Witness ==
    /\ lastOp.name = "cellInput"
    /\ lastOp.changed
    /\ NumRows = 2

\* the cells of one line as the rule states them: the pieces between the
\* pipes, each trimmed, without the first piece if it is empty and without
\* the last piece if it is empty
ExpectedCells(line) ==
    LET pieces == Split(line, "|")
        lo     == IF Trim(pieces[1]) = <<>> THEN 2 ELSE 1
        hi     == IF Len(pieces) >= lo /\ Trim(pieces[Len(pieces)]) = <<>>
                  THEN Len(pieces) - 1 ELSE Len(pieces)
    IN  [k \in 1..(hi - lo + 1) |-> Trim(pieces[lo + k - 1])]

\* the lines of the trimmed text
TextLines(text) == Split(Trim(text), "\n")

\* the rows the rule gives for a text: one per line holding a pipe, but for
\* a separator line at index 1, in the order of the lines
ExpectedRows(text) ==
    LET lines == TextLines(text)
        kept  == {i \in 1..Len(lines) :
                     /\ Includes(lines[i], "|")
                     /\ ~(i = 2 /\ SeparatorMatch(lines[i]))}
        \* the n-th kept line
        nth(n) == CHOOSE i \in kept : Cardinality({j \in kept : j < i}) = n - 1
    IN  [n \in 1..Cardinality(kept) |-> ExpectedCells(lines[nth(n)])]

\* C8: parse result.  For a text that is not blank and has at least two
\* lines once trimmed, the parsed table holds one row per line that contains
\* a pipe, but for a separator line at index 1, in input order, each row
\* being the trimmed pieces between the pipes without an empty first and an
\* empty last piece; the first row is the header.  The text of scenario A
\* gives the header A, B and the one body row 1, 2.
C8_ParseResult ==
    (lastOp.name = "parseMarkdown" /\ Trim(markdownInput) # <<>>
     /\ Len(TextLines(markdownInput)) >= 2) =>
        /\ ExpectedRows(markdownInput) # <<>> =>
               /\ editableTable.headerRow
               /\ TableRows(editableTable) = ExpectedRows(markdownInput)
        /\ markdownInput = ScenarioA =>
               /\ CellTexts(editableTable.ths) = << <<"A">>, <<"B">> >>
               /\ [r \in 1..NumRows |-> CellTexts(editableTable.trs[r])]
                      = << << <<"1">>, <<"2">> >> >>

C8_Witness ==
    /\ lastOp.name = "parseMarkdown"
    /\ markdownInput = ScenarioA
    /\ NumCols = 2
    /\ NumRows = 1

\* one line of the format: a pipe, then every cell between two blanks and
\* followed by a pipe, then a line break
ExpectedLine(texts) ==
    <<"|">> \o Cat([k \in 1..Len(texts) |-> <<" ">> \o texts[k] \o <<" ", "|">>])
            \o <<"\n">>

\* the format of a table with a header: header line, separator line with
\* one --- per header cell, one line per body row that has cells
ExpectedMarkdown(t) ==
    ExpectedLine(CellTexts(t.ths))
    \o ExpectedLine([k \in 1..Len(t.ths) |-> <<"-", "-", "-">>])
    \o Cat([r \in 1..Len(t.trs) |->
               IF Len(t.trs[r]) = 0 THEN <<>> ELSE ExpectedLine(CellTexts(t.trs[r]))])

\* C9: serialise format.  The empty table serialises to the empty text; a
\* table with header cells to the header line, the separator line with one
\* --- per header cell and one line per body row in order, rows without
\* cells skipped, every line ended by a line break.  Header X with the one
\* row y gives '| X |\n| --- |\n| y |\n'.
C9_SerializeFormat ==
    /\ (NumCols = 0 /\ NumRows = 0) => tableToMarkdown(editableTable) = <<>>
    /\ NumCols >= 1 => tableToMarkdown(editableTable) = ExpectedMarkdown(editableTable)
    /\ TableRows(editableTable) = << << <<"X">> >>, << <<"y">> >> >> =>
           tableToMarkdown(editableTable)
               = <<"|", " ", "X", " ", "|", "\n",
                   "|", " ", "-", "-", "-", " ", "|", "\n",
                   "|", " ", "y", " ", "|", "\n">>

C9_Witness ==
    /\ lastOp.name \in GridOps
    /\ TableRows(editableTable) = << << <<"X">> >>, << <<"y">> >> >>
    /\ markdownInput = <<"|", " ", "X", " ", "|", "\n",
                         "|", " ", "-", "-", "-", " ", "|", "\n",
                         "|", " ", "y", " ", "|", "\n">>

\* C10: column swap by drop.  In drag mode with a recorded source s that is a
\* column of the table, a drop on t # s exchanges the texts at s and t in
\* the header and in every body row holding both cells and changes nothing
\* else (header A, B, C with s = 0 and t = 2 becomes C, B, A; the sample
\* header becomes Header 3, Header 2, Header 1); a drop outside drag mode,
\* without a recorded source or on the source itself leaves the table as it
\* is.
C10_ColumnSwap ==
    [][\A t \in 0..(NumCols - 1) :
          Drop(t) =>
              IF ~isDragMode \/ draggedSrcColIndex = Null \/ t = draggedSrcColIndex
              THEN editableTable' = editableTable
              ELSE Has(editableTable.ths, draggedSrcColIndex) =>
                     /\ Exchanged(editableTable, editableTable', draggedSrcColIndex, t)
                     /\ [k \in 1..NumCols |-> editableTable'.ths[k].draggable]
                            = [k \in 1..NumCols |-> editableTable.ths[k].draggable]
                     /\ (CellTexts(editableTable.ths) = DefaultHeader
                         /\ draggedSrcColIndex = 0 /\ t = 2) =>
                            CellTexts(editableTable'.ths)
                                = <<HeaderText(3), HeaderText(2), HeaderText(1)>>
                     /\ CellTexts(SwapColumns(
                            renderTable(<< << <<"A">>, <<"B">>, <<"C">> >> >>, TRUE),
                            0, 2).ths)
                            = << <<"C">>, <<"B">>, <<"A">> >>]_vars

C10_Witness ==
    /\ lastOp.name = "drop"
    /\ lastOp.changed
    /\ CellTexts(editableTable.ths) = <<HeaderText(3), HeaderText(2), HeaderText(1)>>
    /\ NumRows = 2

(***************************************************************************)
(* The separator rule and the handling of texts that do not parse.         *)
(***************************************************************************)
\* the characters a separator row is made of
SeparatorChars == {"|", "-", ":"} \cup WhiteSpace

\* a line whose first and last characters, surrounding whitespace apart, are
\* two pipes with only pipes, dashes, colons and whitespace, and at least
\* one of them, in between
SeparatorShaped(line) ==
    \E lo \in 1..Len(line), hi \in 1..Len(line) :
        /\ lo + 1 < hi
        /\ line[lo] = "|" /\ line[hi] = "|"
        /\ \A k \in 1..Len(line) :
              /\ k < lo \/ k > hi => line[k] \in WhiteSpace
              /\ lo < k /\ k < hi => line[k] \in SeparatorChars

\* the lines of a text that give a row (1-based indices into TextLines):
\* those holding a pipe, but for a separator-shaped line at index 1
KeptLines(text) ==
    LET lines == TextLines(text)
    IN  {i \in 1..Len(lines) :
            Includes(lines[i], "|") /\ ~(i = 2 /\ SeparatorShaped(lines[i]))}

\* the place among the rows of the table of the kept line i
RowOf(text, i) == Cardinality({j \in KeptLines(text) : j <= i})

\* C11: separator rule.  Of the lines of the trimmed text that hold a pipe,
\* exactly the separator-shaped line at index 1 gives no row: a line at
\* index 1 that is not separator-shaped is a body row, and a separator-shaped
\* line at index 0 or at an index above 1 is a row holding its cells.  The
\* text of scenario D gives a header of 2 cells and 2 body rows, the first
\* of which has 1 cell.
C11_SeparatorRule ==
    (lastOp.name = "parseMarkdown" /\ Trim(markdownInput) # <<>>
     /\ Len(TextLines(markdownInput)) >= 2
     /\ KeptLines(markdownInput) # {}) =>
        LET lines == TextLines(markdownInput)
            rows  == TableRows(editableTable)
        IN  /\ Len(rows) = Cardinality(KeptLines(markdownInput))
            /\ \A i \in KeptLines(markdownInput) :
                  rows[RowOf(markdownInput, i)] = ExpectedCells(lines[i])
            /\ markdownInput = ScenarioD =>
                  /\ NumCols = 2
                  /\ NumRows = 2
                  /\ Len(editableTable.trs[1]) = 1
                  /\ CellTexts(editableTable.trs[1])
                         = << <<"not", "-", "a", "-", "separator">> >>

\* three separator-shaped lines: the one at index 1 is gone, the two others
\* are the header and the one body row
C11_Witness ==
    LET line == PipeLine(<< <<"-", "-", "-">>, <<"-", "-", "-">> >>)
    IN  /\ lastOp.name = "parseMarkdown"
        /\ markdownInput = Join(<<line, line, line>>, <<"\n">>)
        /\ TableRows(editableTable)
               = << << <<"-", "-", "-">>, <<"-", "-", "-">> >>,
                    << <<"-", "-", "-">>, <<"-", "-", "-">> >> >>

\* C12: text-change error handling.  A text that is not blank and has fewer
\* than 2 lines, or no line of which gives a row, makes markdownToTable
\* return null and the text-change event leaves the table as it was; a text
\* that is blank once trimmed leaves a table without header cells and
\* without body rows.
C12_TextChange ==
    [][lastOp'.name = "parseMarkdown" =>
          LET text == markdownInput'
          IN  /\ (Trim(text) # <<>>
                  /\ (Len(Split(text, "\n")) < 2 \/ KeptLines(text) = {})) =>
                     /\ markdownToTable(text).isNull
                     /\ editableTable' = editableTable
              /\ Trim(text) = <<>> =>
                     /\ editableTable'.ths = <<>>
                     /\ editableTable'.trs = <<>>]_vars

\* the sample table is still displayed after a text without a pipe
C12_Witness ==
    /\ lastOp.name = "parseMarkdown"
    /\ markdownInput = <<"x">>
    /\ CellTexts(editableTable.ths) = DefaultHeader
    /\ NumRows = 2

(***************************************************************************)
(* Mode and attributes of the cells.                                       *)
(***************************************************************************)
\* all cells of a table, header cells first
AllCells(t) ==
    {t.ths[k] : k \in 1..Len(t.ths)}
        \cup UNION {{t.trs[r][k] : k \in 1..Len(t.trs[r])} : r \in 1..Len(t.trs)}

\* C13: editability follows mode.  In every reachable state every header
\* cell and every body cell is editable in edit mode, and no cell is
\* editable in drag mode.
C13_EditableFollowsMode ==
    \A cell \in AllCells(editableTable) : cell.contenteditable = ~isDragMode

\* C14: every header is draggable in drag mode.  In every reachable state in
\* drag mode each header cell of the table is draggable, so that a dragstart
\* on it records its index, whichever handler created the cell.
C14_HeadersDraggable ==
    isDragMode => \A k \in 0..(NumCols - 1) : DragStarts(k)

(***************************************************************************)
(* Selection and the operations on rows and columns.                       *)
(***************************************************************************)
\* the handlers that add or remove rows or columns or exchange two columns
StructuralOps == {"addRow", "addColumn", "deleteRow", "deleteColumn", "drop"}

\* C15: selection reset on structural mutation.  Right after addRow,
\* addColumn, deleteRow, deleteColumn or a drop that changed the table, no
\* row and no column is selected.
C15_MutationClearsSelection ==
    (lastOp.name \in StructuralOps /\ lastOp.changed) =>
        selectedRow = Null /\ selectedColumn = Null

\* seq without its element at JavaScript index i
Without(seq, i) ==
    [j \in 1..(Len(seq) - 1) |-> IF j <= i THEN seq[j] ELSE seq[j + 1]]

\* seq without its last element, if it has one
WithoutLast(seq) == [j \in 1..(Len(seq) - 1) |-> seq[j]]

\* C16: deleteRow request.  In edit mode with a selected row r that is a body
\* row of the table, exactly that row is removed, the other rows keeping
\* their cells and their order, and nothing is selected afterwards; in drag
\* mode, without a selection or with a selected column exactly the last body
\* row is removed, or nothing changes if there is none.  The header cells
\* stay as they are in every case.
C16_DeleteRow ==
    [][lastOp'.name = "deleteRow" =>
          LET rows == editableTable.trs
              left == editableTable'.trs
          IN  /\ editableTable'.ths = editableTable.ths
              /\ editableTable'.headerRow = editableTable.headerRow
              /\ (~isDragMode /\ selectedRow \in 1..Len(rows)) =>
                     /\ left = Without(rows, selectedRow - 1)
                     /\ selectedRow' = Null
                     /\ selectedColumn' = Null
              /\ (isDragMode \/ selectedRow = Null) =>
                     /\ left = WithoutLast(rows)
                     /\ rows = <<>> => editableTable' = editableTable]_vars

\* the first body row of the sample table was selected and deleted
C16_Witness ==
    /\ lastOp.name = "deleteRow"
    /\ lastOp.changed
    /\ CellTexts(editableTable.ths) = DefaultHeader
    /\ NumRows = 1
    /\ CellTexts(editableTable.trs[1]) = <<CellText(4), CellText(5), CellText(6)>>
    /\ selectedRow = Null

\* C17: deleteColumn request.  On a table of more than one column, in edit
\* mode with a selected column c that is a column of the table, the header
\* cell c and the cell c of every body row that has one are removed, the
\* other cells keeping their content and their order, and nothing is
\* selected afterwards; in drag mode, without a selection or with a selected
\* row the last header cell and the last cell of every body row are removed.
C17_DeleteColumn ==
    [][(lastOp'.name = "deleteColumn" /\ NumCols > 1) =>
          LET rows == editableTable.trs
              left == editableTable'.trs
          IN  /\ Len(left) = Len(rows)
              /\ (~isDragMode /\ selectedColumn \in 0..(NumCols - 1)) =>
                     /\ editableTable'.ths = Without(editableTable.ths, selectedColumn)
                     /\ \A r \in 1..Len(rows) :
                           left[r] = IF selectedColumn < Len(rows[r])
                                     THEN Without(rows[r], selectedColumn)
                                     ELSE rows[r]
                     /\ selectedRow' = Null
                     /\ selectedColumn' = Null
              /\ (isDragMode \/ selectedColumn = Null) =>
                     /\ editableTable'.ths = WithoutLast(editableTable.ths)
                     /\ \A r \in 1..Len(rows) : left[r] = WithoutLast(rows[r])]_vars

\* the first column of the sample table was selected and deleted
C17_Witness ==
    /\ lastOp.name = "deleteColumn"
    /\ lastOp.changed
    /\ CellTexts(editableTable.ths) = <<HeaderText(2), HeaderText(3)>>
    /\ NumRows = 2
    /\ CellTexts(editableTable.trs[1]) = <<CellText(2), CellText(3)>>
    /\ CellTexts(editableTable.trs[2]) = <<CellText(5), CellText(6)>>
    /\ selectedColumn = Null

\* C18: stale selection.  deleteRow in edit mode with a selected row that is
\* no body row of the table, and deleteColumn in edit mode with a selected
\* column that is no column of the table, leave the table as it is, leave
\* nothing selected and end without an exception.
C18_StaleSelection ==
    [][(\/ /\ lastOp'.name = "deleteRow"
           /\ ~isDragMode
           /\ selectedRow # Null
           /\ selectedRow \notin 1..NumRows
        \/ /\ lastOp'.name = "deleteColumn"
           /\ ~isDragMode
           /\ selectedColumn # Null
           /\ selectedColumn \notin 0..(NumCols - 1)) =>
          /\ editableTable' = editableTable
          /\ selectedRow' = Null
          /\ selectedColumn' = Null
          /\ ~lastOp'.threw]_vars

\* C19: append operations.  On a table with C >= 1 columns addRow appends
\* one body row of C cells with empty text, and addColumn appends a header
\* cell with the text 'Header {C+1}' and one cell with empty text to every
\* body row; the cells that were there keep their text and their place.
C19_Append ==
    [][NumCols >= 1 =>
          LET texts(t) == [r \in 1..Len(t.trs) |-> CellTexts(t.trs[r])]
          IN  /\ lastOp'.name = "addRow" =>
                     /\ CellTexts(editableTable'.ths) = CellTexts(editableTable.ths)
                     /\ texts(editableTable')
                            = Append(texts(editableTable), [k \in 1..NumCols |-> <<>>])
              /\ lastOp'.name = "addColumn" =>
                     /\ CellTexts(editableTable'.ths)
                            = Append(CellTexts(editableTable.ths),
                                     <<"Header", " ">> \o NumStr(NumCols + 1))
                     /\ texts(editableTable')
                            = [r \in 1..NumRows |->
                                  Append(CellTexts(editableTable.trs[r]), <<>>)]]_vars

\* a row was added to the sample table, and then a column
C19_Witness ==
    /\ lastOp.name = "addColumn"
    /\ CellTexts(editableTable.ths) = Append(DefaultHeader, HeaderText(4))
    /\ NumRows = 3
    /\ CellTexts(editableTable.trs[1])
           = <<CellText(1), CellText(2), CellText(3), <<>> >>
    /\ CellTexts(editableTable.trs[3]) = << <<>>, <<>>, <<>>, <<>> >>

\* C20: refusal on a columnless table.  addRow, addColumn and deleteColumn
\* on the table left by clearing the text change neither the table nor the
\* text and end without an exception.
C20_ColumnlessRefusal ==
    [][(/\ lastOp.name = "parseMarkdown"
        /\ Trim(markdownInput) = <<>>
        /\ NumCols = 0
        /\ lastOp'.name \in {"addRow", "addColumn", "deleteColumn"}) =>
          /\ editableTable' = editableTable
          /\ markdownInput' = markdownInput
          /\ ~lastOp'.threw]_vars

(***************************************************************************)
(* Drag state, parsed column count, selection in drag mode.                *)
(***************************************************************************)
\* C21: toggleMode clears the in-flight drag.  Right after every toggleMode
\* no drag source is recorded, so that a source recorded by dragstart does
\* not survive a mode toggle and a later drop has nothing to swap.
C21_ToggleClearsDrag ==
    lastOp.name = "toggleMode" => draggedSrcColIndex = Null

\* C22: column count of parsed tables.  In every reachable state in which a
\* table with a header row exists, the header has at least one cell.
C22_ColumnCount ==
    editableTable.headerRow => NumCols >= 1

\* C23: selection is suspended in drag mode.  A click on a body cell or on a
\* header cell in drag mode leaves the selection as it was, and in every
\* state in drag mode no row and no column is selected.
C23_SelectionSuspended ==
    [][/\ isDragMode' => (selectedRow' = Null /\ selectedColumn' = Null)
       /\ (isDragMode /\ lastOp'.name \in {"clickCell", "clickHeader"}) =>
              (selectedRow' = selectedRow /\ selectedColumn' = selectedColumn)]_vars

\* a header cell of the sample table was clicked in drag mode
C23_Witness ==
    /\ isDragMode
    /\ lastOp.name = "clickHeader"
    /\ CellTexts(editableTable.ths) = DefaultHeader
    /\ selectedRow = Null
    /\ selectedColumn = Null

\* C24: swapInProgress release.  swapInProgress is false after every event,
\* so after every exit of the drop handler, whether the drop was ignored or
\* entered the swap; and after a drop that entered the swap (drag mode, flag
\* not set, a recorded source other than the target) no source is recorded.
C24_SwapFlagReleased ==
    [][/\ swapInProgress' = FALSE
       /\ \A t \in 0..(NumCols - 1) :
              (/\ Drop(t)
               /\ isDragMode
               /\ ~swapInProgress
               /\ draggedSrcColIndex # Null
               /\ t # draggedSrcColIndex) =>
                  draggedSrcColIndex' = Null]_vars

\* the two columns of the table of scenario D were exchanged by a drop
C24_Witness ==
    /\ lastOp.name = "drop"
    /\ lastOp.changed
    /\ CellTexts(editableTable.ths) = << <<"B">>, <<"A">> >>
    /\ ~swapInProgress
    /\ draggedSrcColIndex = Null

====
